---- MODULE Spec2Model ----
(***************************************************************************)
(* Model of src-tauri/src/main.rs: two #[tauri::command] functions, the    *)
(* handler table built by tauri::generate_handler!, and main(), which      *)
(* configures the builder, runs the host and `expect`s its Result.         *)
(*                                                                         *)
(* The program keeps no data of its own.  The state is the position of     *)
(* main, the handler table held by the builder/host, the replies the host  *)
(* has delivered to the front-end, and how the process ended.              *)
(***************************************************************************)
EXTENDS Integers, Sequences, FiniteSets, TLC

\* ---- bounds -------------------------------------------------------------
MaxCalls == 3        \* invocations dispatched during one run of the host
MaxExitCode == 2     \* the host ends the process with a status in 0..MaxExitCode

\* ---- values of the Rust runtime ----------------------------------------
SuccessExitCode == 0     \* main returned
PanicExitCode == 101     \* main panicked (Result::expect on Err)
NoStatus == -1           \* "no exit status": process alive / host gave none
NoDiagnostic == ""
ExpectMessage == "error while running tauri application"

\* Names the front-end may send: the two registered ones and names that
\* differ from them in case, in a separator, or altogether.
Names == {"health_check", "desktop_capabilities",
          "Health_Check", "desktop-capabilities", "quit"}

HostCodes == 0..MaxExitCode

\* ---- the two commands ---------------------------------------------------
\* A reply value is a JSON string or a JSON array of strings.
StringValue(s) == [tag |-> "String", str |-> s, seq |-> <<>>]
ArrayValue(q) == [tag |-> "Array", str |-> "", seq |-> q]

health_check_upper == "OK"
health_check == "ok"

desktop_capabilities_swapped ==
  <<"filesystem", "clipboard", "notifications",
    "deep-linking", "autoupdate", "window-controls">>
desktop_capabilities ==
  <<"filesystem", "notifications", "clipboard",
    "deep-linking", "autoupdate", "window-controls">>

\* ---- the handler table --------------------------------------------------
RegisteredOnlyHealth == {"health_check"}
Registered == {"health_check", "desktop_capabilities"}

\* A reply: the name asked for, whether the invoke was resolved (ok) or
\* rejected, which command function ran ("none" when none), and the value.
Resolve(name, fn, v) == [name |-> name, ok |-> TRUE, ran |-> fn, value |-> v]
Reject(name) ==
  [name |-> name, ok |-> FALSE, ran |-> "none",
   value |-> StringValue("command not found")]

\* Mutant: an unmatched name falls through to the first handler.
InvokeHandlerFallThrough(h, name) ==
  IF name \in h /\ name = "desktop_capabilities"
    THEN Resolve(name, "desktop_capabilities", ArrayValue(desktop_capabilities))
    ELSE Resolve(name, "health_check", StringValue(health_check))
\* The closure generate_handler! expands to: match on the command name,
\* one arm per listed command, a rejecting arm for everything else.
InvokeHandler(h, name) ==
  IF name \in h /\ name = "health_check"
    THEN Resolve(name, "health_check", StringValue(health_check))
  ELSE IF name \in h /\ name = "desktop_capabilities"
    THEN Resolve(name, "desktop_capabilities", ArrayValue(desktop_capabilities))
  ELSE Reject(name)

\* ---- state --------------------------------------------------------------
VARIABLES
  pc,          \* position of main: "main", "run", "running", "exited"
  handlers,    \* names in the handler table of the builder / host
  responses,   \* replies delivered to the front-end, oldest first
  hostStatus,  \* termination status the host reported, NoStatus if none
  exitStatus,  \* exit status of the process, NoStatus while it is alive
  diagnostic,  \* panic message written to stderr, NoDiagnostic if none
  initError    \* TRUE once run has returned Err (the host could not start)

vars == <<pc, handlers, responses, hostStatus, exitStatus, diagnostic, initError>>

\* The component's lifecycle state as the specification names it.
Phase ==
  IF pc \in {"main", "run"} THEN "not started"
  ELSE IF pc = "running" THEN "running"
  ELSE "terminated"

Init ==
  /\ pc = "main"
  /\ handlers = {}
  /\ responses = <<>>
  /\ hostStatus = NoStatus
  /\ exitStatus = NoStatus
  /\ diagnostic = NoDiagnostic
  /\ initError = FALSE

\* tauri::Builder::default().invoke_handler(generate_handler![...])
Configure ==
  /\ pc = "main"
  /\ pc' = "run"
  /\ handlers' = Registered
  /\ UNCHANGED <<responses, hostStatus, exitStatus, diagnostic, initError>>

\* .run(context): the host initialises and enters its event loop.
RunStart ==
  /\ pc = "run"
  /\ pc' = "running"
  /\ UNCHANGED <<handlers, responses, hostStatus, exitStatus, diagnostic, initError>>

\* Mutant: the error of run is dropped and the program carries on.
RunFailIgnored ==
  /\ pc = "run"
  /\ pc' = "running"
  /\ UNCHANGED <<handlers, responses, hostStatus, exitStatus, diagnostic>>
  /\ initError' = TRUE
\* .run(context) returns Err (the host cannot initialise); .expect(msg)
\* panics: the message goes to stderr and the process ends with 101.
RunFail ==
  /\ pc = "run"
  /\ pc' = "exited"
  /\ exitStatus' = PanicExitCode
  /\ diagnostic' = ExpectMessage
  /\ UNCHANGED <<handlers, responses, hostStatus>>
  /\ initError' = TRUE

\* Mutant: the reply is taken from the previous reply (a cache).
DispatchCached(name) ==
  /\ pc = "running"
  /\ Len(responses) < MaxCalls
  /\ responses' = Append(responses,
       IF responses = <<>> THEN InvokeHandler(handlers, name)
       ELSE [responses[Len(responses)] EXCEPT !.name = name])
  /\ UNCHANGED <<pc, handlers, hostStatus, exitStatus, diagnostic, initError>>
\* Mutant: a rejected invoke brings the process down.
DispatchPanicOnUnknown(name) ==
  /\ pc = "running"
  /\ Len(responses) < MaxCalls
  /\ responses' = Append(responses, InvokeHandler(handlers, name))
  /\ IF name \in handlers
       THEN UNCHANGED <<pc, exitStatus, diagnostic>>
       ELSE /\ pc' = "exited"
            /\ exitStatus' = PanicExitCode
            /\ diagnostic' = ExpectMessage
  /\ UNCHANGED <<handlers, hostStatus, initError>>
\* Mutant: a handler is consumed by its first use.
DispatchUnregisters(name) ==
  /\ pc = "running"
  /\ Len(responses) < MaxCalls
  /\ responses' = Append(responses, InvokeHandler(handlers, name))
  /\ handlers' = handlers \ {name}
  /\ UNCHANGED <<pc, hostStatus, exitStatus, diagnostic, initError>>
\* Mutant: invokes are still answered after the process has ended.
DispatchAfterExit(name) ==
  /\ pc \in {"running", "exited"}
  /\ Len(responses) < MaxCalls
  /\ responses' = Append(responses, InvokeHandler(handlers, name))
  /\ UNCHANGED <<pc, handlers, hostStatus, exitStatus, diagnostic, initError>>
\* The running host receives an invoke for `name`, passes it to the
\* handler closure and delivers the reply, all in one step.
Dispatch(name) ==
  /\ pc = "running"
  /\ Len(responses) < MaxCalls
  /\ responses' = Append(responses, InvokeHandler(handlers, name))
  /\ UNCHANGED <<pc, handlers, hostStatus, exitStatus, diagnostic, initError>>

\* Mutant: the status of the host is replaced by success.
HostExitZero(code) ==
  /\ pc = "running"
  /\ pc' = "exited"
  /\ hostStatus' = code
  /\ exitStatus' = SuccessExitCode
  /\ UNCHANGED <<handlers, responses, diagnostic, initError>>
\* The host shuts down inside run and ends the process itself with its
\* status; control never comes back to main.
HostExit(code) ==
  /\ pc = "running"
  /\ pc' = "exited"
  /\ hostStatus' = code
  /\ exitStatus' = code
  /\ UNCHANGED <<handlers, responses, diagnostic, initError>>

\* The host shuts down and run returns Ok(()); expect yields the unit
\* value, main returns and the Rust runtime exits with success.
RunReturnsOk ==
  /\ pc = "running"
  /\ pc' = "exited"
  /\ hostStatus' = SuccessExitCode
  /\ exitStatus' = SuccessExitCode
  /\ UNCHANGED <<handlers, responses, diagnostic, initError>>

Next ==
  \/ Configure
  \/ RunStart
  \/ RunFail
  \/ \E name \in Names : Dispatch(name)
  \/ \E code \in HostCodes : HostExit(code)
  \/ RunReturnsOk

Spec == Init /\ [][Next]_vars

\* ---- properties ---------------------------------------------------------
Indices == 1..Len(responses)
IsUnregistered(name) == name # "health_check" /\ name # "desktop_capabilities"
SixTokens ==
  <<"filesystem", "notifications", "clipboard",
    "deep-linking", "autoupdate", "window-controls">>
Range(q) == {q[k] : k \in 1..Len(q)}

\* C1: every reply to the name "health_check" is a success carrying exactly
\* the string "ok", whatever replies came before it.
C1_HealthCheckOk ==
  \A i \in Indices :
    responses[i].name = "health_check" =>
      /\ responses[i].ok
      /\ responses[i].value.tag = "String"
      /\ responses[i].value.str = "ok"
      /\ responses[i].value.seq = <<>>
\* health_check answered after two other invocations, one of them rejected.
C1_Witness ==
  /\ pc = "running"
  /\ Len(responses) >= 3
  /\ responses[1].name = "desktop_capabilities"
  /\ ~responses[2].ok
  /\ responses[3].name = "health_check"
  /\ responses[3].ok

\* C2: every reply to the name "desktop_capabilities" is a success carrying
\* the six tokens in the stated order: length 6, none repeated, none missing.
C2_CapabilitiesExact ==
  \A i \in Indices :
    responses[i].name = "desktop_capabilities" =>
      /\ responses[i].ok
      /\ responses[i].value.tag = "Array"
      /\ responses[i].value.seq = SixTokens
      /\ Len(responses[i].value.seq) = 6
      /\ Cardinality(Range(responses[i].value.seq)) = 6
C2_Witness ==
  /\ pc = "running"
  /\ Len(responses) >= 2
  /\ responses[1].name = "health_check"
  /\ responses[2].name = "desktop_capabilities"
  /\ responses[2].value.seq[4] = "deep-linking"

\* C3: the two registered names are resolved, each by its own command; any
\* other name is rejected by the dispatch and no command function runs.
C3_ExactNamesOnly ==
  \A i \in Indices :
    /\ IsUnregistered(responses[i].name) =>
         ~responses[i].ok /\ responses[i].ran = "none"
    /\ ~IsUnregistered(responses[i].name) =>
         responses[i].ok /\ responses[i].ran = responses[i].name
\* A name differing only in case is rejected, then the exact name resolves.
C3_Witness ==
  /\ Len(responses) >= 2
  /\ responses[1].name = "Health_Check"
  /\ ~responses[1].ok
  /\ responses[2].name = "health_check"
  /\ responses[2].ok

\* C4: the reply is a function of the name alone: two replies to the same
\* name are equal wherever they stand in a history, and every reply equals
\* the entry of one fixed table indexed by the name.
ReplyTable(name) ==
  IF name = "health_check"
    THEN [ok |-> TRUE, value |-> [tag |-> "String", str |-> "ok", seq |-> <<>>]]
  ELSE IF name = "desktop_capabilities"
    THEN [ok |-> TRUE, value |-> [tag |-> "Array", str |-> "", seq |-> SixTokens]]
  ELSE [ok |-> FALSE,
        value |-> [tag |-> "String", str |-> "command not found", seq |-> <<>>]]
C4_NameDeterminesReply ==
  /\ \A i, j \in Indices :
       responses[i].name = responses[j].name => responses[i] = responses[j]
  /\ \A i \in Indices :
       [ok |-> responses[i].ok, value |-> responses[i].value]
         = ReplyTable(responses[i].name)
\* The same name asked first and again after a different invocation.
C4_Witness ==
  /\ Len(responses) >= 3
  /\ responses[1].name = "desktop_capabilities"
  /\ responses[2].name = "health_check"
  /\ responses[3].name = "desktop_capabilities"

\* C5: while the host runs, the handler table holds exactly the two names,
\* and once the builder is configured no step adds or removes a handler.
C5_TwoHandlersOnly ==
  [][ /\ Phase = "running" =>
           handlers = {"health_check", "desktop_capabilities"}
      /\ Phase' = "running" =>
           handlers' = {"health_check", "desktop_capabilities"}
      /\ pc # "main" => handlers' = handlers ]_vars
C5_Witness ==
  /\ Phase = "running"
  /\ Len(responses) >= 2
  /\ Cardinality(handlers) = 2

\* C6: when the host cannot initialise, the process is ended by the panic
\* (status 101, the expect message on stderr), the running state was never
\* entered, no invocation was dispatched, and no step follows (no retry).
C6_StartupFailureFatal ==
  [][ /\ initError' =>
           /\ Phase' = "terminated"
           /\ exitStatus' = 101
           /\ diagnostic' = "error while running tauri application"
           /\ responses' = <<>>
           /\ Phase = "not started"
      /\ ~initError ]_vars
C6_Witness ==
  /\ initError
  /\ pc = "exited"
  /\ diagnostic # NoDiagnostic

\* C7 as stated: whenever the process has ended, its exit status is the
\* status the host reported.
C7_ExitStatusIsHostStatus ==
  pc = "exited" => exitStatus = hostStatus
\* C7 amended: after a shutdown the exit status is the host's status and
\* nothing is written to stderr; after a failed start the host reported no
\* status and the process ends with the panic status 101 and the message.
C7_ExitStatusByPath ==
  pc = "exited" =>
    IF initError
      THEN /\ hostStatus = NoStatus
           /\ exitStatus = 101
           /\ diagnostic = "error while running tauri application"
      ELSE /\ hostStatus \in HostCodes
           /\ exitStatus = hostStatus
           /\ diagnostic = NoDiagnostic
\* The host ended the process with a non-zero status after some dispatches.
C7_Witness ==
  /\ pc = "exited"
  /\ ~initError
  /\ hostStatus = 1
  /\ exitStatus = 1
  /\ Len(responses) >= 1

\* C8: in a run that dispatches "health_check" and then
\* "desktop_capabilities", the first reply is "ok" and the second the six
\* tokens; once the process has ended no further reply is delivered.
C8_Scenario ==
  [][ /\ ( /\ Len(responses') >= 2
           /\ responses'[1].name = "health_check"
           /\ responses'[2].name = "desktop_capabilities" ) =>
           /\ responses'[1].ok /\ responses'[1].value.str = "ok"
           /\ responses'[2].ok /\ responses'[2].value.seq = SixTokens
      /\ Phase = "terminated" => responses' = responses ]_vars
\* The whole scenario, ended by a shutdown with status 0.
C8_Witness ==
  /\ pc = "exited"
  /\ ~initError
  /\ exitStatus = 0
  /\ diagnostic = NoDiagnostic
  /\ Len(responses) = 2
  /\ responses[1].name = "health_check"
  /\ responses[1].value.str = "ok"
  /\ responses[2].name = "desktop_capabilities"
  /\ responses[2].value.seq = SixTokens

\* C9: a live process is either not started or running; running is entered
\* only from not started and not started is never re-entered; a step that
\* delivers a reply keeps the component running; running is left only by
\* the host's shutdown, which reports the host's status.
C9_Lifecycle ==
  [][ /\ (exitStatus = NoStatus) = (Phase \in {"not started", "running"})
      /\ (Phase' = "running" /\ Phase # "running") => Phase = "not started"
      /\ Phase # "not started" => Phase' # "not started"
      /\ (Phase = "running" /\ responses' # responses) => Phase' = "running"
      /\ (Phase = "running" /\ Phase' # "running") =>
           /\ Phase' = "terminated"
           /\ hostStatus' \in HostCodes
           /\ ~initError'
           /\ responses' = responses ]_vars
\* Still running after a resolved and a rejected invocation.
C9_Witness ==
  /\ Phase = "running"
  /\ \E i, j \in Indices : responses[i].ok /\ ~responses[j].ok

\* C10: a step that delivers a reply delivers exactly one, appended to the
\* earlier ones, and changes nothing else: not the lifecycle state, not the
\* handler table, not the exit status, the host status or stderr.
C10_InvocationFrame ==
  [][ responses' # responses =>
        /\ Len(responses') = Len(responses) + 1
        /\ SubSeq(responses', 1, Len(responses)) = responses
        /\ UNCHANGED <<pc, handlers, hostStatus, exitStatus,
                       diagnostic, initError>> ]_vars
C10_Witness ==
  /\ Phase = "running"
  /\ Len(responses) >= 2
  /\ responses[1].ran = "health_check"
  /\ responses[2].ran = "desktop_capabilities"
  /\ handlers = Registered

====
